---- MODULE Spec2Model ----
(***************************************************************************)
(* A model of the streaming speech-to-text pipeline of                     *)
(* src/voice_assistant.py: the capture loop of main, transcription_worker, *)
(* typing_worker, the two queues between them, the stop event, and the     *)
(* pure function delta_text.                                               *)
(*                                                                         *)
(* Strings are sequences of one-character strings.  Audio is a sequence of *)
(* int16 samples, each a multiple of SampleUnit; a frame of n samples is   *)
(* 2n bytes long.                                                          *)
(***************************************************************************)
EXTENDS Integers, Sequences, FiniteSets, TLC

(***************************************************************************)
(* Bounds of the model.                                                    *)
(***************************************************************************)
MaxStrLen == 3          \* longest string handed to delta_text directly
MaxRecords == 2         \* most blocks the capture loop puts in one run

(***************************************************************************)
(* Program constants and the units the inputs are quantised in.            *)
(***************************************************************************)
sample_rate == 16000
bytes_per_sample == 2
FullScale == 32768                     \* the divisor of the normalisation to [-1, 1)
SampleUnit == FullScale \div 4         \* a sample is k * SampleUnit
ThresholdDen == FullScale \div SampleUnit  \* rms_threshold is T / ThresholdDen
ChunkDen == 4 * sample_rate            \* chunk_seconds is q / ChunkDen seconds

Alphabet == {"a", "b", " "}
Whitespace == {" "}
Amplitudes == {0, 1}           \* samples 0 and SampleUnit, in SampleUnit
FrameLens == {1, 2}            \* samples in one recorded block
ChunkChoices == {7, 8}         \* --chunk-seconds, in 1/ChunkDen s
ThresholdChoices == {0, 1}     \* --rms-threshold, in 1/ThresholdDen
MinTextLenChoices == {0, 2}    \* --min-text-len

SeqsUpTo(S, n) == UNION {[1..k -> S] : k \in 0..n}
Strings == SeqsUpTo(Alphabet, MaxStrLen)
Last(s) == s[Len(s)]
IsPrefix(p, s) == Len(p) <= Len(s) /\ SubSeq(s, 1, Len(p)) = p

(***************************************************************************)
(* str.strip, str.startswith, str.endswith, str.join.                      *)
(***************************************************************************)
RECURSIVE LStrip(_)
LStrip(s) ==
    IF s # <<>> /\ Head(s) \in Whitespace THEN LStrip(Tail(s)) ELSE s

RECURSIVE RStrip(_)
RStrip(s) ==
    IF s # <<>> /\ Last(s) \in Whitespace
    THEN RStrip(SubSeq(s, 1, Len(s) - 1))
    ELSE s

Strip(s) == RStrip(LStrip(s))

StartsWith(s, p) == Len(p) <= Len(s) /\ \A i \in 1..Len(p) : s[i] = p[i]

EndsWithSpace(s) == s # <<>> /\ Last(s) = " "

RECURSIVE Join(_)
Join(texts) ==
    IF texts = <<>> THEN <<>>
    ELSE IF Len(texts) = 1 THEN Head(texts)
    ELSE Head(texts) \o <<" ">> \o Join(Tail(texts))

(***************************************************************************)
(* delta_text(current, previous).                                          *)
(***************************************************************************)
delta_text_SwapArgs(current, previous) ==
    LET cur == Strip(previous)
        prev == Strip(current)
    IN  IF prev = <<>> THEN cur
        ELSE IF StartsWith(cur, prev)
             THEN Strip(SubSeq(cur, Len(prev) + 1, Len(cur)))
             ELSE cur

delta_text_NoFinalStrip(current, previous) ==
    LET cur == Strip(current)
        prev == Strip(previous)
    IN  IF prev = <<>> THEN cur
        ELSE IF StartsWith(cur, prev)
             THEN SubSeq(cur, Len(prev) + 1, Len(cur))
             ELSE cur

delta_text_DropOnDivergence(current, previous) ==
    LET cur == Strip(current)
        prev == Strip(previous)
    IN  IF prev = <<>> THEN cur
        ELSE IF StartsWith(cur, prev)
             THEN Strip(SubSeq(cur, Len(prev) + 1, Len(cur)))
             ELSE <<>>

delta_text(current, previous) ==
    LET cur == Strip(current)
        prev == Strip(previous)
    IN  IF prev = <<>> THEN cur
        ELSE IF StartsWith(cur, prev)
             THEN Strip(SubSeq(cur, Len(prev) + 1, Len(cur)))
             ELSE cur

(***************************************************************************)
(* transcription_worker, lines 165-173: what one transcript does to the    *)
(* text queue and to last_text.  put says whether typing_q.put is called.  *)
(***************************************************************************)
accepts_NoMinLen(text, min_len) == text # <<>>

accepts(text, min_len) == text # <<>> /\ Len(text) >= min_len

handle_text_NoSuffix(text, last, min_len) ==
    IF ~accepts(text, min_len)
    THEN [put |-> FALSE, frag |-> <<>>, last_text |-> last]
    ELSE LET d == delta_text(text, last)
             new_text == IF d = <<>> /\ text = last THEN <<" ">> ELSE d
         IN  IF new_text # <<>>
             THEN [put |-> TRUE, frag |-> new_text, last_text |-> text]
             ELSE [put |-> FALSE, frag |-> <<>>, last_text |-> last]

handle_text_NoRepeatRule(text, last, min_len) ==
    IF ~accepts(text, min_len)
    THEN [put |-> FALSE, frag |-> <<>>, last_text |-> last]
    ELSE LET new_text == delta_text(text, last)
         IN  IF new_text # <<>>
             THEN [put |-> TRUE,
                   frag |-> IF EndsWithSpace(new_text) THEN new_text
                            ELSE new_text \o <<" ">>,
                   last_text |-> text]
             ELSE [put |-> FALSE, frag |-> <<>>, last_text |-> last]

handle_text_AlwaysRemember(text, last, min_len) ==
    IF ~accepts(text, min_len)
    THEN [put |-> FALSE, frag |-> <<>>, last_text |-> text]
    ELSE LET d == delta_text(text, last)
             new_text == IF d = <<>> /\ text = last THEN <<" ">> ELSE d
         IN  [put |-> new_text # <<>>,
              frag |-> IF new_text = <<>> \/ EndsWithSpace(new_text)
                       THEN new_text ELSE new_text \o <<" ">>,
              last_text |-> text]

handle_text(text, last, min_len) ==
    IF ~accepts(text, min_len)
    THEN [put |-> FALSE, frag |-> <<>>, last_text |-> last]
    ELSE LET d == delta_text(text, last)
             new_text == IF d = <<>> /\ text = last THEN <<" ">> ELSE d
         IN  IF new_text # <<>>
             THEN [put |-> TRUE,
                   frag |-> IF EndsWithSpace(new_text) THEN new_text
                            ELSE new_text \o <<" ">>,
                   last_text |-> text]
             ELSE [put |-> FALSE, frag |-> <<>>, last_text |-> last]

(***************************************************************************)
(* The state.                                                              *)
(***************************************************************************)
VARIABLES
    chunk_seconds,  \* args.chunk_seconds, in 1/ChunkDen s
    rms_threshold,  \* args.rms_threshold, in 1/ThresholdDen
    min_text_len,   \* args.min_text_len
    m_pc,           \* main: "parse_args", "load_model", "cpu_fallbacks",
                    \* "create", "pick", "start_t", "start_y",
                    \* "open_recorder", "capture", "join_t", "join_y",
                    \* "exited"; ended before the pipeline: "returned",
                    \* "raised", "sysexit"; ended by an exception of the
                    \* recorder or the capture loop: "crashed"
    n_records,      \* recorder.record calls so far
    stop_event,     \* threading.Event
    audio_q,        \* queue.Queue[bytes]
    typing_q,       \* queue.Queue[str]
    t_pc,           \* transcription_worker: "none", "new" (created, not
                    \* started), "while", "get", "engine", "done"
    buffer,         \* transcription_worker's bytearray, as samples
    last_text,      \* transcription_worker's last_text
    y_pc,           \* typing_worker: "none", "new", "while", "get", "inject",
                    \* "done"
    y_text,         \* typing_worker's text
    fed,            \* history: bytes transcription_worker has dequeued
    dequeued,       \* history: the samples it has dequeued, in order
    log,            \* history: one record per window
    engine_calls,   \* history: the audio of each model.transcribe call
    queued,         \* history: the argument of each typing_q.put
    sink_calls,     \* history: the argument of each type_with_ydotool call
    sink_results,   \* history: "ok" or "fail" per returned sink call
    join_timeouts,  \* history: the joins of main that timed out
    d_pc,           \* direct call of delta_text: "idle", "start", "returned"
    d_current,      \* its argument current
    d_previous,     \* its argument previous
    d_result,       \* what it returned
    blocks,         \* the blocks recorder.record can deliver in this run
    list_devices,   \* args.list_devices
    args_device,    \* args.device
    args_compute_type, \* args.compute_type
    input_device,   \* args.input_device: <<>> for None, else <<selector>>
    default_mic,    \* sc.default_microphone(): <<>> for None, else <<name>>
    mics,           \* sc.all_microphones(include_loopback=True), by name
    model,          \* main's model: <<>> while unbound, else <<engine>>
    load_calls,     \* history: the WhisperModel calls, in order
    picked,         \* what pick_microphone did at line 260
    held            \* the recorder of line 269 is open: the device is held

cfg_vars == <<chunk_seconds, rms_threshold, min_text_len, blocks>>
main_vars == <<m_pc, n_records, join_timeouts, held>>
t_vars == <<t_pc, buffer, last_text, fed, dequeued, log, engine_calls, queued>>
y_vars == <<y_pc, y_text, sink_calls, sink_results>>
d_vars == <<d_pc, d_current, d_previous, d_result>>
pipe_vars == <<cfg_vars, main_vars, stop_event, audio_q, typing_q, t_vars, y_vars>>
env_vars == <<list_devices, args_device, args_compute_type, input_device,
              default_mic, mics>>
s_vars == <<env_vars, model, load_calls, picked>>
vars == <<pipe_vars, d_vars, s_vars>>

(***************************************************************************)
(* Configuration and inputs.                                               *)
(***************************************************************************)
\* int(sample_rate * chunk_seconds * bytes_per_sample): int truncates
\* toward zero.
target_bytes ==
    LET x == sample_rate * chunk_seconds * bytes_per_sample
    IN  IF x >= 0 THEN x \div ChunkDen ELSE -((-x) \div ChunkDen)

ByteLen(samples) == bytes_per_sample * Len(samples)

Frames == {[i \in 1..n |-> a] : n \in FrameLens, a \in Amplitudes}
\* What one engine call can yield: the texts of its segments.
EngineOutputs ==
    { <<>>,
      << <<" ">> >>,
      << <<" ", "a">> >>,
      << <<"b">> >>,
      << <<" ", "a">>, <<"b", " ">> >> }

RECURSIVE SumSq(_)
SumSq(samples) ==
    IF samples = <<>> THEN 0
    ELSE Head(samples) * Head(samples) + SumSq(Tail(samples))

\* rms < threshold, with rms = sqrt(mean((k * SampleUnit / FullScale)^2)) and
\* threshold = T / ThresholdDen, compared exactly on the squares; rms is 0.0
\* for an empty array.
rms_below(samples, T) ==
    LET scale == FullScale \div SampleUnit
    IN  IF samples = <<>> THEN 0 < T
        ELSE /\ T > 0
             /\ SumSq(samples) * ThresholdDen * ThresholdDen
                    < T * T * scale * scale * Len(samples)

\* queue.Queue: put at the back, get from the front.
q_put_Front(q, item) == <<item>> \o q

q_put(q, item) == Append(q, item)

need_more_OffByOne(buf) == ByteLen(buf) <= target_bytes

need_more(buf) == ByteLen(buf) < target_bytes

gate_drops_Never(audio) == FALSE

gate_drops(audio) == rms_below(audio, rms_threshold)

(***************************************************************************)
(* pick_microphone, lines 80-99.  A selector and a device name are         *)
(* sequences of characters; None is <<>> and a value v is <<v>>.           *)
(***************************************************************************)
SelectorChars == {"0", "1", "m", "M"}
Selectors == SeqsUpTo(SelectorChars, 2)
MicNames == {<<"M", "1">>, <<"m">>}
MicLists == SeqsUpTo(MicNames, 2)

DigitValue ==
    ("0" :> 0) @@ ("1" :> 1) @@ ("2" :> 2) @@ ("3" :> 3) @@ ("4" :> 4) @@
    ("5" :> 5) @@ ("6" :> 6) @@ ("7" :> 7) @@ ("8" :> 8) @@ ("9" :> 9)

\* str.isdigit(): at least one character, and all of them digits.
isdigit(s) == s # <<>> /\ \A i \in 1..Len(s) : s[i] \in DOMAIN DigitValue

\* int(s) of a string of digits.
RECURSIVE int(_)
int(s) ==
    IF s = <<>> THEN 0
    ELSE 10 * int(SubSeq(s, 1, Len(s) - 1)) + DigitValue[Last(s)]

\* str.lower() on the characters of SelectorChars.
lower(s) == [i \in 1..Len(s) |-> IF s[i] = "M" THEN "m" ELSE s[i]]

\* sub in s
Contains(sub, s) ==
    \E i \in 0..(Len(s) - Len(sub)) : SubSeq(s, i + 1, i + Len(sub)) = sub

Found(name) == [status |-> "ok", name |-> name]
SystemExit(message) == [status |-> message, name |-> <<>>]

pick_microphone_CaseSensitive(device, dflt, all) ==
    IF device = <<>>
    THEN IF dflt = <<>> THEN SystemExit("no_default") ELSE Found(dflt[1])
    ELSE LET sel == device[1]
             hits == {i \in 1..Len(all) : Contains(sel, all[i])}
         IN  IF isdigit(sel)
             THEN IF int(sel) < Len(all) THEN Found(all[int(sel) + 1])
                  ELSE SystemExit("index_not_found")
             ELSE IF hits # {}
                  THEN Found(all[CHOOSE i \in hits : \A j \in hits : i <= j])
                  ELSE SystemExit("no_match")

\* "index_not_found" is line 92, "no_match" line 99, "no_default" line 84.
pick_microphone(device, dflt, all) ==
    IF device = <<>>
    THEN IF dflt = <<>> THEN SystemExit("no_default") ELSE Found(dflt[1])
    ELSE LET sel == device[1]
             hits == {i \in 1..Len(all) : Contains(lower(sel), lower(all[i]))}
         IN  IF isdigit(sel)
             THEN IF int(sel) < Len(all) THEN Found(all[int(sel) + 1])
                  ELSE SystemExit("index_not_found")
             ELSE IF hits # {}
                  THEN Found(all[CHOOSE i \in hits : \A j \in hits : i <= j])
                  ELSE SystemExit("no_match")

(***************************************************************************)
(* The engine choice of main, lines 208-233.                               *)
(***************************************************************************)
DeviceChoices == {"auto", "cpu"}
Engine(device, compute_type) == [device |-> device, compute_type |-> compute_type]
target_device == IF args_device = "auto" THEN "cuda" ELSE args_device
cpu_fallbacks == <<args_compute_type, "int8", "float32">>

(***************************************************************************)
(* The pipeline as main enters the capture loop at line 270: both threads  *)
(* started, the recorder open, the queues empty, the event clear.          *)
(***************************************************************************)
PipeStart ==
    /\ m_pc = "capture"
    /\ held = TRUE
    /\ n_records = 0
    /\ join_timeouts = {}
    /\ stop_event = FALSE
    /\ audio_q = <<>>
    /\ typing_q = <<>>
    /\ t_pc = "while"
    /\ buffer = <<>>
    /\ last_text = <<>>
    /\ fed = 0
    /\ dequeued = <<>>
    /\ log = <<>>
    /\ engine_calls = <<>>
    /\ queued = <<>>
    /\ y_pc = "while"
    /\ y_text = <<>>
    /\ sink_calls = <<>>
    /\ sink_results = <<>>

DirectIdle ==
    /\ d_pc = "idle"
    /\ d_current = <<>>
    /\ d_previous = <<>>
    /\ d_result = <<>>

\* What lines 194-262 leave when nothing fails: the default arguments, the
\* engine loaded at the first attempt, the default microphone picked.
StartupDone ==
    /\ list_devices = FALSE
    /\ args_device = "auto"
    /\ args_compute_type = "int8_float16"
    /\ input_device = <<>>
    /\ default_mic = << <<"m">> >>
    /\ mics = << <<"m">> >>
    /\ model = <<Engine("cuda", "int8_float16")>>
    /\ load_calls = <<Engine("cuda", "int8_float16")>>
    /\ picked = Found(<<"m">>)

Init ==
    /\ chunk_seconds \in ChunkChoices
    /\ rms_threshold \in ThresholdChoices
    /\ min_text_len \in MinTextLenChoices
    /\ blocks = Frames
    /\ PipeStart
    /\ DirectIdle
    /\ StartupDone

\* main has not ended: the daemon threads die when it does.
Alive == m_pc \notin {"exited", "crashed"}

(***************************************************************************)
(* main, lines 194-266: the arguments, the engine, the queues and threads, *)
(* the microphone, the start of the threads.                               *)
(***************************************************************************)
\* Line 194 and the test of line 195.  parse_args converts the values
\* (type=float, type=int) and returns them.
ParseArgs ==
    /\ m_pc = "parse_args"
    /\ m_pc' = IF list_devices THEN "list_devices" ELSE "load_model"
    /\ UNCHANGED <<cfg_vars, held, n_records, join_timeouts, stop_event, audio_q,
                   typing_q, t_vars, y_vars, d_vars, s_vars>>

\* Lines 196-201.
ListDevices ==
    /\ m_pc = "list_devices"
    /\ m_pc' = "returned"
    /\ UNCHANGED <<cfg_vars, held, n_records, join_timeouts, stop_event, audio_q,
                   typing_q, t_vars, y_vars, d_vars, s_vars>>

\* Lines 208-218: the first WhisperModel call; ok is whether it returns.
LoadModel(ok) ==
    /\ m_pc = "load_model"
    /\ load_calls' = Append(load_calls, Engine(target_device, args_compute_type))
    /\ model' = IF ok THEN <<Engine(target_device, args_compute_type)>> ELSE model
    /\ m_pc' = IF ok THEN "create"
               ELSE IF args_device # "auto" THEN "raised"
               ELSE "cpu_fallbacks"
    /\ UNCHANGED <<cfg_vars, held, n_records, join_timeouts, stop_event, audio_q,
                   typing_q, t_vars, y_vars, d_vars, env_vars, picked>>

\* Lines 221-233: one pass of the loop over cpu_fallbacks.
LoadCpu(ok) ==
    LET i == Len(load_calls)
    IN  /\ m_pc = "cpu_fallbacks"
        /\ load_calls' = Append(load_calls, Engine("cpu", cpu_fallbacks[i]))
        /\ model' = IF ok THEN <<Engine("cpu", cpu_fallbacks[i])>> ELSE model
        /\ m_pc' = IF ok THEN "create"
                   ELSE IF i = Len(cpu_fallbacks) THEN "raised"
                   ELSE "cpu_fallbacks"
        /\ UNCHANGED <<cfg_vars, held, n_records, join_timeouts, stop_event, audio_q,
                       typing_q, t_vars, y_vars, d_vars, env_vars, picked>>

\* Lines 235-258: the queues, the event and the two Thread objects.
CreateThreads ==
    /\ m_pc = "create"
    /\ audio_q' = <<>>
    /\ typing_q' = <<>>
    /\ stop_event' = FALSE
    /\ t_pc' = "new"
    /\ y_pc' = "new"
    /\ m_pc' = "pick"
    /\ UNCHANGED <<cfg_vars, held, n_records, join_timeouts, buffer, last_text, fed,
                   dequeued, log, engine_calls, queued, y_text, sink_calls,
                   sink_results, d_vars, s_vars>>

PickMicrophone_IgnoreFailure ==
    /\ m_pc = "pick"
    /\ picked' = pick_microphone(input_device, default_mic, mics)
    /\ m_pc' = "start_t"
    /\ UNCHANGED <<cfg_vars, held, n_records, join_timeouts, stop_event, audio_q,
                   typing_q, t_vars, y_vars, d_vars, env_vars, model,
                   load_calls>>

\* Line 260.  SystemExit is not caught: main ends there.
PickMicrophone ==
    /\ m_pc = "pick"
    /\ picked' = pick_microphone(input_device, default_mic, mics)
    /\ m_pc' = IF picked'.status = "ok" THEN "start_t" ELSE "sysexit"
    /\ UNCHANGED <<cfg_vars, held, n_records, join_timeouts, stop_event, audio_q,
                   typing_q, t_vars, y_vars, d_vars, env_vars, model,
                   load_calls>>

\* Line 265.  transcription_worker runs lines 127-130 and stands at its while.
StartTranscriber ==
    /\ m_pc = "start_t"
    /\ t_pc' = "while"
    /\ m_pc' = "start_y"
    /\ UNCHANGED <<cfg_vars, held, n_records, join_timeouts, stop_event, audio_q,
                   typing_q, buffer, last_text, fed, dequeued, log,
                   engine_calls, queued, y_vars, d_vars, s_vars>>

\* Line 266.
StartTyper ==
    /\ m_pc = "start_y"
    /\ y_pc' = "while"
    /\ m_pc' = "open_recorder"
    /\ UNCHANGED <<cfg_vars, held, n_records, join_timeouts, stop_event, audio_q,
                   typing_q, t_vars, y_text, sink_calls, sink_results, d_vars,
                   s_vars>>

\* Line 269: mic.recorder(...) is entered and the device acquired.
OpenRecorder ==
    /\ m_pc = "open_recorder"
    /\ held' = TRUE
    /\ m_pc' = "capture"
    /\ UNCHANGED <<cfg_vars, n_records, join_timeouts, stop_event, audio_q,
                   typing_q, t_vars, y_vars, d_vars, s_vars>>

\* Line 269 raises: nothing is acquired, the finally clause sets the event
\* and the exception, which is no KeyboardInterrupt, ends main.
OpenRecorderRaises ==
    /\ m_pc = "open_recorder"
    /\ stop_event' = TRUE
    /\ m_pc' = "crashed"
    /\ UNCHANGED <<cfg_vars, held, n_records, join_timeouts, audio_q,
                   typing_q, t_vars, y_vars, d_vars, s_vars>>

(***************************************************************************)
(* main, lines 268-288.                                                    *)
(***************************************************************************)
\* One pass of the capture loop with a block that is not empty: lines 270-280.
Record ==
    /\ m_pc = "capture"
    /\ ~stop_event
    /\ n_records < MaxRecords
    /\ \E data \in blocks : audio_q' = q_put(audio_q, data)
    /\ n_records' = n_records + 1
    /\ UNCHANGED <<cfg_vars, held, m_pc, join_timeouts, stop_event, typing_q,
                   t_vars, y_vars, d_vars, s_vars>>

\* One pass of the capture loop with an empty block: lines 272-273.
RecordEmpty ==
    /\ m_pc = "capture"
    /\ ~stop_event
    /\ UNCHANGED vars

\* KeyboardInterrupt in the capture loop: the with statement closes the
\* recorder, then the except and the finally clauses run.
Interrupt ==
    /\ m_pc = "capture"
    /\ held' = FALSE
    /\ stop_event' = TRUE
    /\ m_pc' = "join_t"
    /\ UNCHANGED <<cfg_vars, n_records, join_timeouts, audio_q, typing_q,
                   t_vars, y_vars, d_vars, s_vars>>

RecordRaises_KeepDevice ==
    /\ m_pc = "capture"
    /\ ~stop_event
    /\ stop_event' = TRUE
    /\ m_pc' = "crashed"
    /\ UNCHANGED <<cfg_vars, held, n_records, join_timeouts, audio_q,
                   typing_q, t_vars, y_vars, d_vars, s_vars>>

\* An exception other than KeyboardInterrupt in lines 270-280 (recording,
\* converting or putting a block): the with statement closes the recorder,
\* the finally clause sets the event, and the exception ends main.
RecordRaises ==
    /\ m_pc = "capture"
    /\ ~stop_event
    /\ held' = FALSE
    /\ stop_event' = TRUE
    /\ m_pc' = "crashed"
    /\ UNCHANGED <<cfg_vars, n_records, join_timeouts, audio_q, typing_q,
                   t_vars, y_vars, d_vars, s_vars>>

\* transcriber.join(timeout=2.0): the thread has ended.
JoinTranscriberDone ==
    /\ m_pc = "join_t"
    /\ t_pc = "done"
    /\ m_pc' = "join_y"
    /\ UNCHANGED <<cfg_vars, held, n_records, join_timeouts, stop_event, audio_q,
                   typing_q, t_vars, y_vars, d_vars, s_vars>>

\* transcriber.join(timeout=2.0): the timeout elapses first.
JoinTranscriberTimeout_Never == FALSE /\ UNCHANGED vars

JoinTranscriberTimeout ==
    /\ m_pc = "join_t"
    /\ t_pc # "done"
    /\ m_pc' = "join_y"
    /\ join_timeouts' = join_timeouts \cup {"transcriber"}
    /\ UNCHANGED <<cfg_vars, held, n_records, stop_event, audio_q, typing_q,
                   t_vars, y_vars, d_vars, s_vars>>

\* typer.join(timeout=2.0), then main returns and the daemon threads die.
JoinTyperDone ==
    /\ m_pc = "join_y"
    /\ y_pc = "done"
    /\ m_pc' = "exited"
    /\ UNCHANGED <<cfg_vars, held, n_records, join_timeouts, stop_event, audio_q,
                   typing_q, t_vars, y_vars, d_vars, s_vars>>

JoinTyperTimeout ==
    /\ m_pc = "join_y"
    /\ y_pc # "done"
    /\ m_pc' = "exited"
    /\ join_timeouts' = join_timeouts \cup {"typer"}
    /\ UNCHANGED <<cfg_vars, held, n_records, stop_event, audio_q, typing_q,
                   t_vars, y_vars, d_vars, s_vars>>

(***************************************************************************)
(* transcription_worker, lines 132-175.                                    *)
(***************************************************************************)
\* while not stop_event.is_set()
TWhile ==
    /\ Alive
    /\ t_pc = "while"
    /\ t_pc' = IF stop_event THEN "done" ELSE "get"
    /\ UNCHANGED <<cfg_vars, main_vars, stop_event, audio_q, typing_q, buffer,
                   last_text, fed, dequeued, log, engine_calls, queued, y_vars, d_vars, s_vars>>

\* audio_q.get(timeout=0.3) finds the queue empty until the timeout.
TGetEmpty ==
    /\ Alive
    /\ t_pc = "get"
    /\ audio_q = <<>>
    /\ t_pc' = "while"
    /\ UNCHANGED <<cfg_vars, main_vars, stop_event, audio_q, typing_q, buffer,
                   last_text, fed, dequeued, log, engine_calls, queued, y_vars, d_vars, s_vars>>

\* The history record of a window: its audio, the bytes dequeued up to it,
\* last_text and the stop event when it was formed, and what became of it.
WindowRecord(audio, upto, outcome) ==
    [audio |-> audio, fed |-> upto, outcome |-> outcome, text |-> <<>>,
     last |-> last_text, frag |-> <<>>, after_stop |-> stop_event]

\* audio_q.get returns a chunk: lines 137-157, up to the engine call.
TGetChunk ==
    /\ Alive
    /\ t_pc = "get"
    /\ audio_q # <<>>
    /\ audio_q' = Tail(audio_q)
    /\ fed' = fed + ByteLen(Head(audio_q))
    /\ dequeued' = dequeued \o Head(audio_q)
    /\ LET buf == buffer \o Head(audio_q)
       IN  IF need_more(buf)
           THEN /\ buffer' = buf
                /\ t_pc' = "while"
                /\ UNCHANGED <<log, engine_calls>>
           ELSE IF gate_drops(buf)
           THEN /\ buffer' = <<>>
                /\ t_pc' = "while"
                /\ log' = Append(log, WindowRecord(buf, fed', "gate"))
                /\ UNCHANGED engine_calls
           ELSE /\ buffer' = buf
                /\ t_pc' = "engine"
                /\ log' = Append(log, WindowRecord(buf, fed', "inflight"))
                /\ engine_calls' = Append(engine_calls, buf)
    /\ UNCHANGED <<cfg_vars, main_vars, stop_event, typing_q, last_text,
                   queued, y_vars, d_vars, s_vars>>

SetLast(l, r) == [l EXCEPT ![Len(l)] = r]

\* The engine call returns the segments texts: lines 158-159 and 165-175.
EngineReturns_PutTwice(texts) ==
    /\ Alive
    /\ t_pc = "engine"
    /\ LET text == Strip(Join(texts))
           h == handle_text(text, last_text, min_text_len)
       IN  /\ typing_q' = IF h.put THEN typing_q \o <<h.frag, h.frag>>
                          ELSE typing_q
           /\ queued' = IF h.put THEN queued \o <<h.frag, h.frag>> ELSE queued
           /\ last_text' = h.last_text
           /\ log' = [log EXCEPT ![Len(log)] =
                 [log[Len(log)] EXCEPT
                     !.outcome = IF h.put THEN "queued" ELSE "rejected",
                     !.text = text,
                     !.frag = h.frag]]
    /\ buffer' = <<>>
    /\ t_pc' = "while"
    /\ UNCHANGED <<cfg_vars, main_vars, stop_event, audio_q, fed, dequeued,
                   engine_calls, y_vars, d_vars, s_vars>>

EngineReturns(texts) ==
    /\ Alive
    /\ t_pc = "engine"
    /\ LET text == Strip(Join(texts))
           h == handle_text(text, last_text, min_text_len)
       IN  /\ typing_q' = IF h.put THEN q_put(typing_q, h.frag) ELSE typing_q
           /\ queued' = IF h.put THEN Append(queued, h.frag) ELSE queued
           /\ last_text' = h.last_text
           /\ log' = SetLast(log,
                 [Last(log) EXCEPT
                     !.outcome = IF h.put THEN "queued"
                                 ELSE IF accepts(text, min_text_len)
                                      THEN "nodelta" ELSE "rejected",
                     !.text = text,
                     !.frag = h.frag])
    /\ buffer' = <<>>
    /\ t_pc' = "while"
    /\ UNCHANGED <<cfg_vars, main_vars, stop_event, audio_q, fed, dequeued,
                   engine_calls, y_vars, d_vars, s_vars>>

TEngineReturn == \E texts \in EngineOutputs : EngineReturns(texts)

\* The engine call raises: lines 160-163.
TEngineRaise_Fatal ==
    /\ Alive
    /\ t_pc = "engine"
    /\ log' = SetLast(log, [Last(log) EXCEPT !.outcome = "error"])
    /\ t_pc' = "done"
    /\ UNCHANGED <<cfg_vars, main_vars, stop_event, audio_q, typing_q, buffer,
                   last_text, fed, dequeued, engine_calls, queued, y_vars, d_vars, s_vars>>

TEngineRaise_KeepBuffer ==
    /\ Alive
    /\ t_pc = "engine"
    /\ log' = SetLast(log, [Last(log) EXCEPT !.outcome = "error"])
    /\ t_pc' = "while"
    /\ UNCHANGED <<cfg_vars, main_vars, stop_event, audio_q, typing_q, buffer,
                   last_text, fed, dequeued, engine_calls, queued, y_vars, d_vars, s_vars>>

TEngineRaise_Reselect ==
    /\ Alive
    /\ t_pc = "engine"
    /\ log' = SetLast(log, [Last(log) EXCEPT !.outcome = "error"])
    /\ buffer' = <<>>
    /\ t_pc' = "while"
    /\ model' = <<Engine("cpu", "int8")>>
    /\ load_calls' = Append(load_calls, Engine("cpu", "int8"))
    /\ UNCHANGED <<cfg_vars, main_vars, stop_event, audio_q, typing_q,
                   last_text, fed, dequeued, engine_calls, queued, y_vars,
                   d_vars, env_vars, picked>>

TEngineRaise ==
    /\ Alive
    /\ t_pc = "engine"
    /\ log' = SetLast(log, [Last(log) EXCEPT !.outcome = "error"])
    /\ buffer' = <<>>
    /\ t_pc' = "while"
    /\ UNCHANGED <<cfg_vars, main_vars, stop_event, audio_q, typing_q,
                   last_text, fed, dequeued, engine_calls, queued, y_vars, d_vars, s_vars>>

(***************************************************************************)
(* typing_worker, lines 182-190.                                           *)
(***************************************************************************)
\* while not stop_event.is_set() or not typing_q.empty()
YWhile ==
    /\ Alive
    /\ y_pc = "while"
    /\ y_pc' = IF ~stop_event \/ typing_q # <<>> THEN "get" ELSE "done"
    /\ UNCHANGED <<cfg_vars, main_vars, stop_event, audio_q, typing_q, t_vars,
                   y_text, sink_calls, sink_results, d_vars, s_vars>>

\* typing_q.get(timeout=0.2) finds the queue empty until the timeout.
YGetEmpty ==
    /\ Alive
    /\ y_pc = "get"
    /\ typing_q = <<>>
    /\ y_pc' = "while"
    /\ UNCHANGED <<cfg_vars, main_vars, stop_event, audio_q, typing_q, t_vars,
                   y_text, sink_calls, sink_results, d_vars, s_vars>>

\* typing_q.get returns a fragment and type_with_ydotool is called with it.
YGetText ==
    /\ Alive
    /\ y_pc = "get"
    /\ typing_q # <<>>
    /\ y_text' = Head(typing_q)
    /\ typing_q' = Tail(typing_q)
    /\ sink_calls' = Append(sink_calls, Head(typing_q))
    /\ y_pc' = "inject"
    /\ UNCHANGED <<cfg_vars, main_vars, stop_event, audio_q, t_vars,
                   sink_results, d_vars, s_vars>>

\* type_with_ydotool returns.
YInjectOk ==
    /\ Alive
    /\ y_pc = "inject"
    /\ sink_results' = Append(sink_results, "ok")
    /\ y_pc' = "while"
    /\ UNCHANGED <<cfg_vars, main_vars, stop_event, audio_q, typing_q, t_vars,
                   y_text, sink_calls, d_vars, s_vars>>

\* type_with_ydotool raises: lines 189-190.
YInjectFail_Requeue ==
    /\ Alive
    /\ y_pc = "inject"
    /\ sink_results' = Append(sink_results, "fail")
    /\ typing_q' = Append(typing_q, y_text)
    /\ y_pc' = "while"
    /\ UNCHANGED <<cfg_vars, main_vars, stop_event, audio_q, t_vars,
                   y_text, sink_calls, d_vars, s_vars>>

YInjectFail ==
    /\ Alive
    /\ y_pc = "inject"
    /\ sink_results' = Append(sink_results, "fail")
    /\ y_pc' = "while"
    /\ UNCHANGED <<cfg_vars, main_vars, stop_event, audio_q, typing_q, t_vars,
                   y_text, sink_calls, d_vars, s_vars>>

Next ==
    \/ Record
    \/ RecordEmpty
    \/ Interrupt
    \/ RecordRaises
    \/ JoinTranscriberDone
    \/ JoinTranscriberTimeout
    \/ JoinTyperDone
    \/ JoinTyperTimeout
    \/ TWhile
    \/ TGetEmpty
    \/ TGetChunk
    \/ TEngineReturn
    \/ TEngineRaise
    \/ YWhile
    \/ YGetEmpty
    \/ YGetText
    \/ YInjectOk
    \/ YInjectFail

Spec == Init /\ [][Next]_vars

\* Each join of main returns, the thread ended or the timeout elapsed; the
\* engine and the sink need never return.
InitFair ==
    /\ chunk_seconds \in ChunkChoices
    /\ rms_threshold \in ThresholdChoices
    /\ min_text_len \in MinTextLenChoices
    /\ blocks = {<<0>>, <<1, 1>>}
    /\ PipeStart
    /\ DirectIdle
    /\ StartupDone

FairSpec ==
    /\ InitFair
    /\ [][Next]_vars
    /\ WF_vars(JoinTranscriberDone \/ JoinTranscriberTimeout)
    /\ WF_vars(JoinTyperDone \/ JoinTyperTimeout)

(***************************************************************************)
(* delta_text and lines 165-173 on arbitrary strings: delta_text is called *)
(* with two strings of at most MaxStrLen characters, and the engine call   *)
(* of a window in flight returns one segment, the first of them, while     *)
(* last_text is the second, stripped.                                      *)
(***************************************************************************)
InitDelta ==
    /\ chunk_seconds = 8
    /\ rms_threshold = 1
    /\ min_text_len \in 0..(MaxStrLen + 1)
    /\ blocks = {<<1, 1>>}
    /\ StartupDone
    /\ d_pc = "start"
    /\ d_current \in Strings
    /\ d_previous \in Strings
    /\ Strip(d_previous) = <<>> \/ accepts(Strip(d_previous), min_text_len)
    /\ d_result = <<>>
    /\ m_pc = "capture"
    /\ held = TRUE
    /\ n_records = 1
    /\ join_timeouts = {}
    /\ stop_event = FALSE
    /\ audio_q = <<>>
    /\ typing_q = <<>>
    /\ t_pc = "engine"
    /\ buffer = <<1, 1>>
    /\ last_text = Strip(d_previous)
    /\ fed = ByteLen(buffer)
    /\ dequeued = buffer
    /\ log = <<WindowRecord(buffer, fed, "inflight")>>
    /\ engine_calls = <<buffer>>
    /\ queued = <<>>
    /\ y_pc = "while"
    /\ y_text = <<>>
    /\ sink_calls = <<>>
    /\ sink_results = <<>>

DeltaCall ==
    /\ d_pc = "start"
    /\ d_result' = delta_text(d_current, d_previous)
    /\ d_pc' = "returned"
    /\ UNCHANGED <<pipe_vars, d_current, d_previous, s_vars>>

EngineYields == EngineReturns(<<d_current>>)

NextDelta ==
    \/ DeltaCall
    \/ EngineYields

SpecDelta == InitDelta /\ [][NextDelta]_vars

(***************************************************************************)
(* main from its first line: the arguments and the environment are drawn   *)
(* from small sets, the values the arguments accept without complaint      *)
(* included.                                                               *)
(***************************************************************************)
StartupConfigs ==
    { <<8, 1, 0>>, <<0, 1, 0>>, <<8, 5, 0>>, <<8, 1, -1>> }
StartupSelections ==
    { << <<>>, << <<"m">> >>, << <<"m">> >> >>,
      << <<>>, <<>>, << <<"m">> >> >>,
      << << <<"m">> >>, <<>>, << <<"M", "1">> >> >>,
      << << <<"1">> >>, <<>>, << <<"M", "1">> >> >>,
      << << <<"m", "m">> >>, << <<"m">> >>, << <<"m">> >> >> }

\* Nothing recorded, queued, transcribed or typed yet.
PipeEmpty ==
    /\ held = FALSE
    /\ n_records = 0
    /\ join_timeouts = {}
    /\ stop_event = FALSE
    /\ audio_q = <<>>
    /\ typing_q = <<>>
    /\ buffer = <<>>
    /\ last_text = <<>>
    /\ fed = 0
    /\ dequeued = <<>>
    /\ log = <<>>
    /\ engine_calls = <<>>
    /\ queued = <<>>
    /\ y_text = <<>>
    /\ sink_calls = <<>>
    /\ sink_results = <<>>

NotPicked == [status |-> "unset", name |-> <<>>]

BeforeMain ==
    /\ m_pc = "parse_args"
    /\ t_pc = "none"
    /\ y_pc = "none"
    /\ PipeEmpty
    /\ model = <<>>
    /\ load_calls = <<>>
    /\ picked = NotPicked

InitStartup ==
    /\ \E c \in StartupConfigs :
          /\ chunk_seconds = c[1]
          /\ rms_threshold = c[2]
          /\ min_text_len = c[3]
    /\ blocks = {<<1, 1>>}
    /\ list_devices \in BOOLEAN
    /\ args_device \in DeviceChoices
    /\ args_compute_type = "int8_float16"
    /\ \E sel \in StartupSelections :
          /\ input_device = sel[1]
          /\ default_mic = sel[2]
          /\ mics = sel[3]
    /\ BeforeMain
    /\ DirectIdle

NextStartup ==
    \/ ParseArgs
    \/ ListDevices
    \/ \E ok \in BOOLEAN : LoadModel(ok)
    \/ \E ok \in BOOLEAN : LoadCpu(ok)
    \/ CreateThreads
    \/ PickMicrophone
    \/ StartTranscriber
    \/ StartTyper
    \/ OpenRecorder
    \/ OpenRecorderRaises
    \/ Next

SpecStartup == InitStartup /\ [][NextStartup]_vars

\* pick_microphone at line 260 on every selector, default and device list.
InitPick ==
    /\ chunk_seconds = 8
    /\ rms_threshold = 1
    /\ min_text_len = 0
    /\ blocks = {<<1, 1>>}
    /\ list_devices = FALSE
    /\ args_device = "auto"
    /\ args_compute_type = "int8_float16"
    /\ input_device \in {<<>>} \cup {<<sel>> : sel \in Selectors}
    /\ default_mic \in {<<>>} \cup {<<name>> : name \in MicNames}
    /\ mics \in MicLists
    /\ m_pc = "pick"
    /\ t_pc = "new"
    /\ y_pc = "new"
    /\ PipeEmpty
    /\ DirectIdle
    /\ model = <<Engine("cuda", "int8_float16")>>
    /\ load_calls = <<Engine("cuda", "int8_float16")>>
    /\ picked = NotPicked

NextPick == PickMicrophone

SpecPick == InitPick /\ [][NextPick]_vars

\* The pipeline with short and long blocks and with a chunk_seconds so small
\* that target_bytes is 0.
WindowChunkChoices == {1, 7, 8}
InitWindows ==
    /\ chunk_seconds \in WindowChunkChoices
    /\ rms_threshold = 1
    /\ min_text_len = 0
    /\ blocks = {<<1>>, <<1, 1>>}
    /\ PipeStart
    /\ DirectIdle
    /\ StartupDone

SpecWindows == InitWindows /\ [][Next]_vars

(***************************************************************************)
(* Operators the properties are stated with.                               *)
(***************************************************************************)
Windows == DOMAIN log
Silent(i) == rms_below(log[i].audio, rms_threshold)
Attempted(i) == log[i].outcome \in {"queued", "nodelta", "rejected"}
Rest(c, p) == SubSeq(c, Len(p) + 1, Len(c))

\* The fragments of the windows that queued one, in window order.
RECURSIVE FragsOf(_)
FragsOf(l) ==
    IF l = <<>> THEN <<>>
    ELSE IF Head(l).outcome = "queued"
         THEN <<Head(l).frag>> \o FragsOf(Tail(l))
         ELSE FragsOf(Tail(l))

\* The audio of the windows that were not dropped by the gate, in order.
RECURSIVE AudioPastGate(_)
AudioPastGate(l) ==
    IF l = <<>> THEN <<>>
    ELSE IF Head(l).outcome = "gate"
         THEN AudioPastGate(Tail(l))
         ELSE <<Head(l).audio>> \o AudioPastGate(Tail(l))

DeltaReturned == d_pc = "returned"
EngineYielded == t_pc = "while" /\ Len(log) = 1 /\ Attempted(1)

(***************************************************************************)
(* C1: a window whose RMS is below rms_threshold is never passed to the    *)
(* engine and queues no fragment, and the buffer is cleared: every engine  *)
(* call is for a window at or above the threshold, the engine calls are    *)
(* exactly the windows at or above it, a silent window has outcome "gate"  *)
(* and no fragment, and the buffer is empty until the next chunk is        *)
(* dequeued.                                                               *)
(***************************************************************************)
C1_SilentWindowDropped ==
    /\ \A i \in Windows :
          Silent(i) => log[i].outcome = "gate" /\ log[i].frag = <<>>
    /\ \A k \in DOMAIN engine_calls : ~rms_below(engine_calls[k], rms_threshold)
    /\ Len(engine_calls) = Cardinality({i \in Windows : ~Silent(i)})
    /\ Len(queued) <= Len(engine_calls)
    /\ (log # <<>> /\ Silent(Len(log)) /\ fed = Last(log).fed) => buffer = <<>>

C1_Witness ==
    /\ Len(log) = 2
    /\ Silent(1) /\ ~Silent(2)
    /\ fed = log[2].fed
    /\ Len(engine_calls) = 1
    /\ queued # <<>>

(***************************************************************************)
(* C2: from an empty buffer, chunks totalling exactly                      *)
(* int(sample_rate * chunk_seconds * 2) bytes form exactly one window and  *)
(* the buffer is empty once that window's attempt is over; chunks          *)
(* totalling one byte less form no window and cause no engine call.        *)
(***************************************************************************)
ThresholdBytes == (sample_rate * chunk_seconds * 2) \div ChunkDen

C2_Windowing ==
    /\ (fed > 0 /\ fed = ThresholdBytes) =>
          /\ Len(log) = 1
          /\ log[1].audio # <<>> /\ ByteLen(log[1].audio) = ThresholdBytes
          /\ t_pc = "engine" \/ buffer = <<>>
    /\ fed = ThresholdBytes - 1 =>
          /\ log = <<>>
          /\ engine_calls = <<>>
          /\ ByteLen(buffer) = fed

C2_Witness ==
    /\ fed = ThresholdBytes
    /\ Len(log) = 1
    /\ Len(log[1].audio) = 2
    /\ n_records = 2
    /\ audio_q = <<>>
    /\ t_pc = "while"
    /\ buffer = <<>>

C2_WitnessOneLess ==
    /\ fed > 0
    /\ fed = ThresholdBytes - 1
    /\ log = <<>>
    /\ t_pc = "while"

(***************************************************************************)
(* C3: fragments reach the sink in the order their windows were            *)
(* transcribed: the fragments put on the text queue are those of the       *)
(* windows in window order, and the sink calls are always a prefix of the  *)
(* fragments put.                                                          *)
(***************************************************************************)
C3_InjectedInOrder ==
    /\ queued = FragsOf(log)
    /\ IsPrefix(sink_calls, queued)

C3_Witness ==
    /\ Len(sink_calls) = 2
    /\ sink_calls[1] # sink_calls[2]
    /\ Len(log) = 2
    /\ log[1].frag = sink_calls[1]
    /\ log[2].frag = sink_calls[2]

(***************************************************************************)
(* C4: an engine error does not end transcription_worker: the thread ends  *)
(* only with the stop event set, the failed window's audio is gone from    *)
(* the buffer, and the next window that passes the gate is passed to the   *)
(* engine, holding only what was dequeued after the failed window.         *)
(***************************************************************************)
C4_EngineErrorNotFatal ==
    /\ t_pc = "done" => stop_event
    /\ engine_calls = AudioPastGate(log)
    /\ \A i \in Windows :
          log[i].outcome = "error" =>
             /\ i = Len(log) => ByteLen(buffer) = fed - log[i].fed
             /\ i < Len(log) =>
                   /\ ByteLen(log[i + 1].audio) = log[i + 1].fed - log[i].fed
                   /\ ~Silent(i + 1) => log[i + 1].outcome # "gate"

C4_Witness ==
    /\ Len(log) = 2
    /\ log[1].outcome = "error"
    /\ log[2].outcome = "queued"
    /\ Len(engine_calls) = 2
    /\ ~stop_event

(***************************************************************************)
(* C5: a fragment whose injection fails is dropped, not put back and not   *)
(* passed to the sink again, and typing_worker stays in its loop: every    *)
(* fragment put is either still on the text queue or was passed to the     *)
(* sink exactly once, in order, whatever the sink calls returned, and the  *)
(* thread ends only with the stop event set.                               *)
(***************************************************************************)
C5_FailedFragmentDropped ==
    /\ queued = sink_calls \o typing_q
    /\ y_pc = "done" => stop_event
    /\ Len(sink_calls) = Len(sink_results) + (IF y_pc = "inject" THEN 1 ELSE 0)
    /\ y_pc = "inject" => y_text = Last(sink_calls)

C5_Witness ==
    /\ Len(sink_results) = 2
    /\ sink_results[1] = "fail"
    /\ sink_results[2] = "ok"
    /\ Len(queued) = 2
    /\ typing_q = <<>>

(***************************************************************************)
(* C6: for all strings p and c such that c starts with p,                  *)
(* delta_text(c, p) is c[len(p):] stripped, the prefix test and the slice  *)
(* taken on the arguments as given.                                        *)
(***************************************************************************)
C6_DeltaOfExtension ==
    (DeltaReturned /\ IsPrefix(d_previous, d_current)) =>
        d_result = Strip(Rest(d_current, d_previous))

C6_Witness ==
    /\ DeltaReturned
    /\ IsPrefix(d_previous, d_current)
    /\ d_previous # Strip(d_previous)
    /\ Strip(d_previous) # <<>>
    /\ d_result # <<>>

(***************************************************************************)
(* C7, as stated: for all non-empty p and all c that do not start with p,  *)
(* delta_text(c, p) is c.                                                  *)
(***************************************************************************)
C7_Original ==
    (DeltaReturned /\ d_previous # <<>> /\ ~IsPrefix(d_previous, d_current)) =>
        d_result = d_current

(***************************************************************************)
(* C7, amended: whenever p stripped is not empty and c stripped does not   *)
(* start with p stripped, delta_text(c, p) is c stripped.                  *)
(***************************************************************************)
C7_DeltaOfDivergence ==
    (/\ DeltaReturned
     /\ Strip(d_previous) # <<>>
     /\ ~IsPrefix(Strip(d_previous), Strip(d_current))) =>
        d_result = Strip(d_current)

C7_Witness ==
    /\ DeltaReturned
    /\ Strip(d_previous) # <<>>
    /\ ~IsPrefix(Strip(d_previous), Strip(d_current))
    /\ d_current # Strip(d_current)
    /\ d_result # <<>>

(***************************************************************************)
(* C8, as stated: delta_text with the empty string as current and x as     *)
(* previous returns x stripped.                                            *)
(***************************************************************************)
C8_Original ==
    (DeltaReturned /\ d_current = <<>>) => d_result = Strip(d_previous)

(***************************************************************************)
(* C8, amended: delta_text with x as current and the empty string as       *)
(* previous returns x stripped; with the empty string as current it        *)
(* returns the empty string.                                               *)
(***************************************************************************)
C8_DeltaWithEmpty ==
    /\ (DeltaReturned /\ d_previous = <<>>) => d_result = Strip(d_current)
    /\ (DeltaReturned /\ d_current = <<>>) => d_result = <<>>

C8_Witness ==
    /\ DeltaReturned
    /\ d_previous = <<>>
    /\ d_current # Strip(d_current)
    /\ d_result # <<>>

(***************************************************************************)
(* C9: delta_text(p, p) is the empty string for every p, and when the      *)
(* engine returns for a window an accepted transcript equal to last_text,  *)
(* the fragment put on the text queue for it is one space.                 *)
(***************************************************************************)
C9_RepeatGivesOneSpace ==
    /\ (DeltaReturned /\ d_current = d_previous) => d_result = <<>>
    /\ (/\ EngineYielded
        /\ accepts(log[1].text, min_text_len)
        /\ log[1].text = log[1].last) =>
           /\ typing_q = << <<" ">> >>
           /\ queued = typing_q

C9_Witness ==
    /\ DeltaReturned
    /\ d_current = d_previous
    /\ EngineYielded
    /\ log[1].text = log[1].last
    /\ Len(log[1].text) = MaxStrLen
    /\ typing_q = << <<" ">> >>

(***************************************************************************)
(* C10: for an accepted transcript t whose delta d against last_text is    *)
(* not empty, the fragment put on the text queue is d followed by one      *)
(* space: t and a space when last_text is empty, and the stripped rest of  *)
(* t and a space when t extends last_text.                                 *)
(***************************************************************************)
C10_FragmentIsDeltaAndSpace ==
    /\ queued = FragsOf(log)
    /\ \A i \in Windows :
          LET t == log[i].text
              l == log[i].last
              d == IF l = <<>> THEN t
                   ELSE IF IsPrefix(l, t) THEN Strip(Rest(t, l)) ELSE t
          IN  (Attempted(i) /\ accepts(t, min_text_len) /\ d # <<>>) =>
                 /\ log[i].outcome = "queued"
                 /\ log[i].frag = d \o <<" ">>

C10_Witness ==
    /\ Len(log) = 2
    /\ log[1].outcome = "queued" /\ log[1].last = <<>>
    /\ log[1].frag = log[1].text \o <<" ">>
    /\ log[2].outcome = "queued" /\ log[2].last = log[1].text
    /\ IsPrefix(log[2].last, log[2].text)
    /\ log[2].frag = <<"b", " ">>
    /\ queued = <<log[1].frag, log[2].frag>>

(***************************************************************************)
(* Operators for the properties of the windows and of shutdown.            *)
(***************************************************************************)
RECURSIVE AllAudio(_)
AllAudio(l) == IF l = <<>> THEN <<>> ELSE Head(l).audio \o AllAudio(Tail(l))

\* What the buffer holds beyond the windows formed so far.
Residual == IF t_pc = "engine" THEN <<>> ELSE buffer

Stopped == m_pc = "exited"

(***************************************************************************)
(* C11: a window holds all that was buffered, and the buffer is empty      *)
(* after every window attempt: the samples dequeued are exactly the        *)
(* windows' audio in order followed by the buffer, so each dequeued byte   *)
(* is in exactly one window and no window's audio reaches the engine       *)
(* twice; during the engine call the buffer still is the window.           *)
(***************************************************************************)
C11_WindowsPartitionAudio ==
    /\ dequeued = AllAudio(log) \o Residual
    /\ t_pc = "engine" => buffer = Last(log).audio
    /\ (log # <<>> /\ t_pc # "engine" /\ fed = Last(log).fed) => buffer = <<>>
    /\ \A i \in Windows : ~need_more(log[i].audio)

C11_Witness ==
    /\ Len(log) = 2
    /\ log[1].outcome = "error"
    /\ ByteLen(log[1].audio) > target_bytes
    /\ log[2].outcome = "rejected"
    /\ Len(engine_calls) = 2
    /\ buffer = <<>>

(***************************************************************************)
(* C12, as stated: a window whose engine call was in flight when the stop  *)
(* signal arrived is finished before main has finished shutdown.           *)
(***************************************************************************)
C12_InFlightWindowFinished ==
    Stopped =>
        \A i \in Windows : log[i].outcome = "inflight" => log[i].after_stop

(***************************************************************************)
(* C13, as stated: if neither join timed out, then once main has finished  *)
(* shutdown the text queue is empty and every fragment put was passed to   *)
(* the sink.                                                               *)
(***************************************************************************)
C13_QueueDrainedAtStop ==
    (Stopped /\ join_timeouts = {}) =>
        /\ typing_q = <<>>
        /\ sink_calls = queued

\* The KeyboardInterrupt of the capture loop has occurred.
Interrupted == m_pc \in {"join_t", "join_y", "exited"}

(***************************************************************************)
(* C14: once the stop signal has occurred main finishes shutdown, with no  *)
(* assumption on the engine call or the sink call ever returning.          *)
(***************************************************************************)
C14_ShutdownTerminates == Interrupted ~> Stopped

C14_Witness ==
    /\ Stopped
    /\ t_pc = "engine"
    /\ typing_q # <<>>
    /\ join_timeouts = {"transcriber", "typer"}

(***************************************************************************)
(* C15: last_text changes only in a step of transcription_worker that puts *)
(* a fragment on the text queue, and it becomes the whole accepted         *)
(* transcript of the window; a gate drop, an engine error and a rejected   *)
(* transcript leave it as it was.                                          *)
(***************************************************************************)
C15_LastTextOnlyWithPut ==
    [][/\ last_text' # last_text =>
             /\ t_pc = "engine"
             /\ queued' = Append(queued, Last(log').frag)
             /\ typing_q' = Append(typing_q, Last(log').frag)
             /\ last_text' = Last(log').text
             /\ accepts(last_text', min_text_len)
       /\ (/\ log' # log
           /\ \/ Len(log') > Len(log)
              \/ Last(log').outcome \in {"error", "rejected"})
             => last_text' = last_text]_vars

C15_Witness ==
    /\ Len(log) = 2
    /\ log[1].outcome = "queued"
    /\ log[2].outcome = "rejected" /\ log[2].text # <<>>
    /\ last_text = log[1].text

(***************************************************************************)
(* C16: a transcript that is empty or shorter than min_text_len puts no    *)
(* fragment on the text queue and leaves last_text as it was.              *)
(***************************************************************************)
C16_ShortTranscriptDiscarded ==
    (EngineYielded /\ (log[1].text = <<>> \/ Len(log[1].text) < min_text_len)) =>
        /\ typing_q = <<>>
        /\ queued = <<>>
        /\ last_text = log[1].last
        /\ log[1].outcome = "rejected"

C16_Witness ==
    /\ EngineYielded
    /\ log[1].text # <<>>
    /\ Len(log[1].text) = min_text_len - 1
    /\ log[1].last # <<>>
    /\ log[1].text # log[1].last
    /\ typing_q = <<>>

(***************************************************************************)
(* C17: a window puts at most one fragment on the text queue: the puts     *)
(* never outnumber the windows whose engine call has returned, and a step  *)
(* puts at most one fragment.                                              *)
(***************************************************************************)
C17_AtMostOneFragmentPerWindow ==
    /\ Len(queued) <= Cardinality({i \in Windows : Attempted(i)})
    /\ Len(sink_calls) + Len(typing_q) <= Cardinality({i \in Windows : Attempted(i)})

C17_Witness ==
    /\ Len(log) = 2
    /\ Attempted(1) /\ Attempted(2)
    /\ Len(queued) = 2
    /\ Len(typing_q) = 2

(***************************************************************************)
(* Startup.                                                                *)
(***************************************************************************)
ConfigValid ==
    /\ chunk_seconds > 0
    /\ rms_threshold >= 0
    /\ rms_threshold <= ThresholdDen
    /\ min_text_len >= 0

NotStarted(pc) == pc \in {"none", "new"}

NothingCaptured ==
    /\ n_records = 0
    /\ audio_q = <<>>
    /\ fed = 0
    /\ engine_calls = <<>>
    /\ sink_calls = <<>>

\* C18: with an invalid configuration (chunk_seconds <= 0, rms_threshold
\* outside [0, 1] or min_text_len < 0) neither worker thread is ever started
\* and no block is ever captured: the run has failed before.
C18_InvalidConfigIsFatal ==
    ~ConfigValid =>
        /\ NotStarted(t_pc)
        /\ NotStarted(y_pc)
        /\ NothingCaptured
        /\ m_pc \notin {"capture", "join_t", "join_y", "exited"}

PickDone == picked # NotPicked
PickFailed == PickDone /\ picked.status # "ok"
MatchesByIndex(sel, all) == isdigit(sel) /\ int(sel) < Len(all)
MatchesByName(sel, all) ==
    \E i \in 1..Len(all) : Contains(lower(sel), lower(all[i]))
\* No device for the selector, or no selector and no default device.
NoDeviceToSelect ==
    IF input_device = <<>> THEN default_mic = <<>>
    ELSE /\ ~MatchesByIndex(input_device[1], mics)
         /\ ~MatchesByName(input_device[1], mics)

\* C19: once microphone selection has failed, main has ended at line 260,
\* neither thread has been started, and nothing has been recorded, queued,
\* transcribed or typed; and selection does fail when there is no device for
\* the selector, or no selector and no default.
C19_MicFailureAbortsBeforePipeline ==
    /\ PickFailed =>
          /\ m_pc = "sysexit"
          /\ t_pc = "new"
          /\ y_pc = "new"
          /\ NothingCaptured
    /\ (PickDone /\ NoDeviceToSelect) => PickFailed

C19_Witness ==
    /\ m_pc = "sysexit"
    /\ picked.status = "no_match"
    /\ model # <<>>
    /\ t_pc = "new"

\* C20 as stated: pick_microphone returns a device whenever the selector
\* matches by index or by case-insensitive substring (or, with no selector,
\* a default exists), and reports device-not-found only when a selector was
\* supplied and no device matches it in either way.
C20_Original ==
    PickDone =>
        /\ (input_device # <<>> /\ ~NoDeviceToSelect) => picked.status = "ok"
        /\ (input_device = <<>> /\ default_mic # <<>>) => picked.status = "ok"
        /\ picked.status \in {"index_not_found", "no_match"} =>
              input_device # <<>> /\ NoDeviceToSelect

\* C20, amended: with no selector the default device is returned, and the
\* no-default error raised when there is none; a selector of digits only is
\* an index and nothing else: the device at that index is returned, and
\* device-not-found is raised when the index is out of range, whatever the
\* names are; any other selector returns the first device whose name
\* contains it, letter case ignored, and device-not-found is raised when
\* there is none.
C20_PickMicrophone ==
    PickDone =>
        IF input_device = <<>>
        THEN /\ default_mic # <<>> => picked = Found(default_mic[1])
             /\ default_mic = <<>> => picked.status = "no_default"
        ELSE LET sel == input_device[1]
             IN  IF isdigit(sel)
                 THEN /\ int(sel) < Len(mics) => picked = Found(mics[int(sel) + 1])
                      /\ int(sel) >= Len(mics) => picked.status = "index_not_found"
                 ELSE /\ MatchesByName(sel, mics) =>
                            \E i \in 1..Len(mics) :
                               /\ picked = Found(mics[i])
                               /\ MatchesByName(sel, <<mics[i]>>)
                               /\ \A j \in 1..(i - 1) : ~MatchesByName(sel, <<mics[j]>>)
                      /\ ~MatchesByName(sel, mics) => picked.status = "no_match"

\* A selector of digits that is no index although a name contains it.
C20_Witness ==
    /\ PickDone
    /\ input_device # <<>>
    /\ isdigit(input_device[1])
    /\ MatchesByName(input_device[1], mics)
    /\ picked.status = "index_not_found"

(***************************************************************************)
(* The device and the stop signal.                                         *)
(***************************************************************************)
\* C21: the device is held only while main is in its capture loop with the
\* stop event clear; after every exit of the loop, by KeyboardInterrupt or
\* by an exception, and so in Stopped, it is not held.
C21_DeviceReleased ==
    /\ held => (m_pc = "capture" /\ ~stop_event)
    /\ m_pc \in {"join_t", "join_y", "exited", "crashed"} => ~held

C21_Witness ==
    /\ m_pc = "crashed"
    /\ n_records > 0
    /\ ~held
    /\ t_pc = "engine"

\* C22: once the stop event is set, no block is put on the audio queue, none
\* is taken from it, and no engine call is started.
C22_NoNewFrameAfterStop ==
    [][stop_event =>
          /\ audio_q' = audio_q
          /\ n_records' = n_records
          /\ fed' = fed
          /\ engine_calls' = engine_calls]_vars

(***************************************************************************)
(* The size of the buffer and of the windows.                              *)
(***************************************************************************)
Waiting == t_pc = "get"
MaxBlockBytes ==
    CHOOSE n \in {ByteLen(b) : b \in blocks} : \A b \in blocks : ByteLen(b) <= n

\* C23 as stated, on the configurations the specification allows: while
\* transcription_worker waits for a block its buffer is shorter than
\* target_bytes, and for target_bytes > 0 no window is longer than
\* target_bytes - 1 plus the longest block.
C23_Original ==
    ConfigValid =>
        /\ Waiting => ByteLen(buffer) < target_bytes
        /\ target_bytes > 0 =>
              \A i \in Windows :
                 ByteLen(log[i].audio) <= target_bytes - 1 + MaxBlockBytes

\* C23, amended: while transcription_worker is at its while test or waits for
\* a block, its buffer is shorter than target_bytes when target_bytes > 0 and
\* empty when target_bytes <= 0; so no window is longer than
\* max(target_bytes - 1, 0) plus the longest block.
C23_BufferBelowTarget ==
    /\ t_pc \in {"while", "get"} =>
          IF target_bytes > 0 THEN ByteLen(buffer) < target_bytes
          ELSE buffer = <<>>
    /\ \A i \in Windows :
          ByteLen(log[i].audio)
             <= (IF target_bytes > 0 THEN target_bytes - 1 ELSE 0) + MaxBlockBytes

\* A window of the greatest length: a buffer one byte short of the target
\* and then a longest block.
C23_Witness ==
    /\ Waiting
    /\ target_bytes > 0
    /\ \E i \in Windows :
          ByteLen(log[i].audio) = target_bytes - 1 + MaxBlockBytes

\* With target_bytes = 0 for a positive chunk_seconds: waiting on an empty
\* buffer after a window of one block.
C23_WitnessZeroTarget ==
    /\ Waiting
    /\ chunk_seconds > 0
    /\ target_bytes = 0
    /\ buffer = <<>>
    /\ log # <<>>

(***************************************************************************)
(* The choice of the engine.                                               *)
(***************************************************************************)
\* The WhisperModel calls in the order the claim gives.
SelectionOrder ==
    IF args_device = "auto"
    THEN <<Engine("cuda", args_compute_type), Engine("cpu", args_compute_type),
           Engine("cpu", "int8"), Engine("cpu", "float32")>>
    ELSE <<Engine(args_device, args_compute_type)>>

StageStarted == ~NotStarted(t_pc) \/ ~NotStarted(y_pc)

C24_SelectionState ==
    /\ IsPrefix(load_calls, SelectionOrder)
    /\ model # <<>> => model[1] = Last(load_calls)
    /\ m_pc = "raised" =>
          /\ load_calls = SelectionOrder
          /\ model = <<>>
          /\ t_pc = "none" /\ y_pc = "none"
          /\ NothingCaptured
    /\ (t_pc # "none" \/ y_pc # "none") =>
          /\ model # <<>>
          /\ m_pc \notin {"load_model", "cpu_fallbacks"}

\* C24: the WhisperModel calls are made in the order cuda, then cpu with the
\* requested compute type, int8, float32 for device auto, and once only for a
\* chosen device; the first that returns is the engine; when all raise, main
\* ends with no thread created; the threads exist only once the engine is
\* chosen, and no step taken after that, an engine error included, makes
\* another call or changes the engine.
C24_EngineChosenOnce ==
    /\ []C24_SelectionState
    /\ [][model # <<>> => (model' = model /\ load_calls' = load_calls)]_vars

\* The last fallback in use, and a window whose engine call raised.
C24_Witness ==
    /\ model = <<Engine("cpu", "float32")>>
    /\ Len(load_calls) = 4
    /\ \E i \in Windows : log[i].outcome = "error"
    /\ t_pc = "engine"

(***************************************************************************)
(* C25: a window whose engine call returned a transcript that passes the   *)
(* filter of line 165 puts exactly one fragment, not empty and ending with *)
(* a space; and delta_text of a stripped, non-empty transcript against a   *)
(* stripped last_text is empty only when the two are equal.                *)
(***************************************************************************)
C25_AcceptedWindowQueuesOneFragment ==
    /\ (EngineYielded /\ accepts(log[1].text, min_text_len)) =>
          /\ log[1].outcome = "queued"
          /\ Len(queued) = 1
          /\ typing_q = queued
          /\ queued[1] # <<>>
          /\ Last(queued[1]) = " "
          /\ last_text = log[1].text
    /\ (/\ DeltaReturned
        /\ d_current # <<>>
        /\ d_current = Strip(d_current)
        /\ d_previous = Strip(d_previous)
        /\ d_result = <<>>) => d_current = d_previous
    /\ \A i \in Windows : log[i].outcome # "nodelta"

\* A transcript that extends last_text by a space and a letter.
C25_Witness ==
    /\ EngineYielded
    /\ DeltaReturned
    /\ log[1].last # <<>>
    /\ log[1].text # log[1].last
    /\ IsPrefix(log[1].last, log[1].text)
    /\ Len(log[1].text) = MaxStrLen
    /\ Len(queued) = 1
    /\ d_result # <<>>

====
